---------------------------- MODULE Spec2Model ----------------------------
(***************************************************************************)
(* Model of the films application: the Director and Film tables            *)
(* (films/models.py), the director endpoints (films/views.py, urls.py)     *)
(* and the populate management command                                     *)
(* (films/management/commands/populate.py).                                *)
(*                                                                         *)
(* A name is a sequence of one-character strings.  A stored birthday is a  *)
(* date, written here as the number of a day; request payloads and the     *)
(* dataset carry birthdays as text, which the field parses.                *)
(***************************************************************************)
EXTENDS Integers, Sequences, FiniteSets, TLC

(***************************************************************************)
(* Bounds of the model.                                                    *)
(***************************************************************************)
MaxDirectors == 2
MaxFilms == 2
MaxNameLen == 3

(***************************************************************************)
(* str.title(), as CPython computes it: one pass over the characters; a    *)
(* cased character is upper-cased when the character before it is not      *)
(* cased (or there is none) and lower-cased otherwise; an uncased          *)
(* character is copied and ends the word.                                  *)
(***************************************************************************)
LowerLetters == <<"a", "b", "c", "d", "e", "f", "g", "h", "i", "j", "k", "l", "m",
                  "n", "o", "p", "q", "r", "s", "t", "u", "v", "w", "x", "y", "z">>
UpperLetters == <<"A", "B", "C", "D", "E", "F", "G", "H", "I", "J", "K", "L", "M",
                  "N", "O", "P", "Q", "R", "S", "T", "U", "V", "W", "X", "Y", "Z">>

LetterIndex(c) ==
    IF \E i \in DOMAIN LowerLetters : LowerLetters[i] = c \/ UpperLetters[i] = c
    THEN CHOOSE i \in DOMAIN LowerLetters : LowerLetters[i] = c \/ UpperLetters[i] = c
    ELSE 0

IsCased(c) == LetterIndex(c) # 0
Lower(c) == IF IsCased(c) THEN LowerLetters[LetterIndex(c)] ELSE c
Upper(c) == IF IsCased(c) THEN UpperLetters[LetterIndex(c)] ELSE c

RECURSIVE TitleFrom(_, _, _)
TitleFrom(s, i, prevCased) ==
    IF i > Len(s) THEN <<>>
    ELSE IF IsCased(s[i])
         THEN <<IF prevCased THEN Lower(s[i]) ELSE Upper(s[i])>> \o TitleFrom(s, i + 1, TRUE)
         ELSE <<s[i]>> \o TitleFrom(s, i + 1, FALSE)

\* A faulty variant of title: str.capitalize(), which upper-cases the first character only.
capitalize(s) ==
    [i \in 1..Len(s) |-> IF i = 1 THEN Upper(s[i]) ELSE Lower(s[i])]

title(s) == TitleFrom(s, 1, FALSE)

(***************************************************************************)
(* DateField: text to date and back.  Two spellings of one day parse to    *)
(* the same date; text that is no date is rejected.                        *)
(***************************************************************************)
NoDate == 0

ParseDate(t) ==
    CASE t = "1899-08-13" -> 18990813
      [] t = "1899-8-13"  -> 18990813
      [] t = "1930-05-31" -> 19300531
      [] OTHER            -> NoDate

FormatDate(d) ==
    CASE d = 18990813 -> "1899-08-13"
      [] d = 19300531 -> "1930-05-31"

BirthdayInputs == {"1899-08-13", "1899-8-13", "1930-05-31", "13/08/1899"}

(***************************************************************************)
(* The dataset of the populate command (films/management/commands/         *)
(* _directors.py): a fixed list of dictionaries, one per director.  The    *)
(* command reads the keys "name" and "birthday" of an entry and passes     *)
(* the whole entry to the Director constructor.                            *)
(***************************************************************************)
Hitchcock  == [name |-> <<"A", "l">>, birthday |-> "1899-08-13"]
McG        == [name |-> <<"M", "c", "G">>, birthday |-> "1930-05-31"]
NoBirthday == [name |-> <<"A", "l">>]
NoName     == [birthday |-> "1930-05-31"]
ExtraKey   == [name |-> <<"A", "l">>, birthday |-> "1899-08-13", films |-> "none"]
BadDate    == [name |-> <<"A", "l">>, birthday |-> "13/08/1899"]

DataChoices ==
    { <<Hitchcock>>, <<Hitchcock, McG>>, <<Hitchcock, NoBirthday>>,
      <<ExtraKey, McG>>, <<BadDate, Hitchcock>>, <<NoName>> }

(***************************************************************************)
(* Inputs of the operations.                                               *)
(***************************************************************************)
NameInputs == { <<"a", "L">> }
ItemInputs ==
    {[given |-> FALSE]} \cup
    [given : {TRUE}, value : { <<>>, <<"A", "l">>, <<"M", "c", "g">> }]
PostNames == { <<"a", "L">>, <<" ", "a", "L">>, <<" ">> }
PayloadInputs ==
    [name : PostNames, birthday : BirthdayInputs] \cup [name : PostNames]
        \cup [birthday : BirthdayInputs] \cup {[other |-> "x"]}

NameAlphabet == {"a", "A", "b", "B", " ", "'"}
RECURSIVE NamesUpTo(_)
NamesUpTo(n) ==
    IF n = 0 THEN {<<>>}
    ELSE LET shorter == NamesUpTo(n - 1)
         IN  shorter \cup {Append(s, c) : s \in shorter, c \in NameAlphabet}

\* test_NameToTitleCase's name and the name it expects
TestName == <<"a", "l", "F", "r", "e", "d", " ", "h", "i", "t", "c", "h", "C", "o", "C", "K">>
TestExpected == <<"A", "l", "f", "r", "e", "d", " ", "H", "i", "t", "c", "h", "c", "o", "c", "k">>

(***************************************************************************)
(* State: the dataset, the two tables (primary key -> row), the next       *)
(* primary key of each table, and the outcome of the last operation.       *)
(***************************************************************************)
VARIABLES data, directors, films, nextDirectorId, nextFilmId, response

vars == <<data, directors, films, nextDirectorId, nextFilmId, response>>

EmptyTable == [i \in {} |-> i]
Restrict(f, S) == [i \in S |-> f[i]]

Init ==
    /\ data \in DataChoices
    /\ directors = EmptyTable
    /\ films = EmptyTable
    /\ nextDirectorId = 1
    /\ nextFilmId = 1
    /\ response = [op |-> "none"]

(***************************************************************************)
(* Director.save(): the instance's name is title-cased, then the row is    *)
(* written.  A birthday that is no date makes the write raise; the         *)
(* instance keeps the title-cased name.                                    *)
(***************************************************************************)
DirectorSave(name, birthday) ==
    /\ nextDirectorId <= MaxDirectors
    /\ LET self == [name |-> title(name), birthday |-> ParseDate(birthday)]
       IN  IF self.birthday = NoDate
           THEN /\ response' = [op |-> "save", input |-> name, name |-> self.name,
                                status |-> "ValidationError"]
                /\ UNCHANGED <<directors, nextDirectorId>>
           ELSE /\ directors' = (nextDirectorId :> self) @@ directors
                /\ nextDirectorId' = nextDirectorId + 1
                /\ response' = [op |-> "save", input |-> name, name |-> self.name,
                                status |-> "saved", id |-> nextDirectorId]
    /\ UNCHANGED <<data, films, nextFilmId>>

Save == \E name \in NameInputs, birthday \in BirthdayInputs : DirectorSave(name, birthday)

\* test_NameToTitleCase: a save into the empty table with the test's birthday, for
\* the test's name and every name of the bound
SaveOnEmpty ==
    /\ directors = EmptyTable
    /\ nextDirectorId = 1
    /\ \E name \in NamesUpTo(MaxNameLen) \cup {TestName} : DirectorSave(name, "1899-08-13")

(***************************************************************************)
(* DirectorSerializer: the fields name and birthday.  Outbound, a row is   *)
(* projected to its name and its birthday as ISO text.  Inbound, both      *)
(* fields are required; the name is stripped of surrounding white space    *)
(* and must not be blank; the birthday must parse as a date.               *)
(***************************************************************************)
Serialize(row) == [name |-> row.name, birthday |-> FormatDate(row.birthday)]

RECURSIVE LStrip(_)
LStrip(s) == IF s # <<>> /\ Head(s) = " " THEN LStrip(Tail(s)) ELSE s
RECURSIVE RStrip(_)
RStrip(s) == IF s # <<>> /\ s[Len(s)] = " " THEN RStrip(SubSeq(s, 1, Len(s) - 1)) ELSE s
Strip(s) == RStrip(LStrip(s))

FieldErrors(payload) ==
    {f \in {"name", "birthday"} : f \notin DOMAIN payload}
        \cup (IF "name" \in DOMAIN payload /\ Strip(payload.name) = <<>>
              THEN {"name"} ELSE {})
        \cup (IF "birthday" \in DOMAIN payload /\ ParseDate(payload.birthday) = NoDate
              THEN {"birthday"} ELSE {})

IsValid(payload) == FieldErrors(payload) = {}

(***************************************************************************)
(* The status codes the views name.  views.py imports APIView, Response    *)
(* and get_object_or_404 and never binds the name `status`, so evaluating  *)
(* status.HTTP_... raises NameError and the request ends in a server       *)
(* error.                                                                  *)
(***************************************************************************)
HTTP_200_OK == 200
HTTP_201_CREATED == 201
HTTP_400_BAD_REQUEST == 400
HTTP_404_NOT_FOUND == 404
HTTP_500_INTERNAL_SERVER_ERROR == 500

StatusIsBound == FALSE

(***************************************************************************)
(* DirectorAPIView.get: every row, or the rows whose name is the `item`    *)
(* query parameter when it is given and not empty.  The body is the bag    *)
(* of the serialized rows (the order of an unordered query is the          *)
(* database's).                                                            *)
(***************************************************************************)
\* A faulty variant of Filter: name__iexact instead of an exact match.
FilterIExact(dirs, item) ==
    {i \in DOMAIN dirs :
        /\ Len(dirs[i].name) = Len(item)
        /\ \A k \in 1..Len(item) : Lower(dirs[i].name[k]) = Lower(item[k])}

Filter(dirs, item) == {i \in DOMAIN dirs : dirs[i].name = item}

BagOf(dirs, ids) ==
    [r \in {Serialize(dirs[i]) : i \in ids} |->
        Cardinality({i \in ids : Serialize(dirs[i]) = r})]

GetDirectors ==
    /\ \E param \in ItemInputs :
         LET item == IF param.given THEN param.value ELSE <<>>
             rows == IF item # <<>> THEN Filter(directors, item) ELSE DOMAIN directors
         IN  response' = [op |-> "list", param |-> param, status |-> HTTP_200_OK,
                          body |-> BagOf(directors, rows)]
    /\ UNCHANGED <<data, directors, films, nextDirectorId, nextFilmId>>

(***************************************************************************)
(* DirectorAPIView.post.                                                   *)
(***************************************************************************)
PostDirectors ==
    /\ \E payload \in PayloadInputs :
         IF IsValid(payload)
         THEN \* serializer.save() -> Director.objects.create() -> Director.save()
              /\ nextDirectorId <= MaxDirectors
              /\ directors' =
                    (nextDirectorId :> [name |-> title(Strip(payload.name)),
                                        birthday |-> ParseDate(payload.birthday)])
                        @@ directors
              /\ nextDirectorId' = nextDirectorId + 1
              /\ response' =
                    IF StatusIsBound
                    THEN [op |-> "post", payload |-> payload, status |-> HTTP_201_CREATED,
                          body |-> {}]
                    ELSE [op |-> "post", payload |-> payload,
                          status |-> HTTP_500_INTERNAL_SERVER_ERROR, body |-> {}]
         ELSE /\ UNCHANGED <<directors, nextDirectorId>>
              /\ response' =
                    IF StatusIsBound
                    THEN [op |-> "post", payload |-> payload, status |-> HTTP_400_BAD_REQUEST,
                          body |-> FieldErrors(payload)]
                    ELSE [op |-> "post", payload |-> payload,
                          status |-> HTTP_500_INTERNAL_SERVER_ERROR, body |-> {}]
    /\ UNCHANGED <<data, films, nextFilmId>>

(***************************************************************************)
(* DirectorDetailAPIView.get, routed by directors/<int:director_id>.       *)
(***************************************************************************)
\* A faulty variant of GetObjectOr404: Director.objects.get(), whose DoesNotExist is a server error.
GetObject(dirs, id) ==
    IF id \in DOMAIN dirs
    THEN [status |-> HTTP_200_OK, body |-> Serialize(dirs[id])]
    ELSE [status |-> HTTP_500_INTERNAL_SERVER_ERROR, body |-> {}]

GetObjectOr404(dirs, id) ==
    IF id \in DOMAIN dirs
    THEN [status |-> HTTP_200_OK, body |-> Serialize(dirs[id])]
    ELSE [status |-> HTTP_404_NOT_FOUND, body |-> {}]

GetDirectorDetail ==
    /\ \E director_id \in 0..(MaxDirectors + 1) :
         LET found == GetObjectOr404(directors, director_id)
         IN  response' = [op |-> "detail", id |-> director_id, status |-> found.status,
                          body |-> found.body]
    /\ UNCHANGED <<data, directors, films, nextDirectorId, nextFilmId>>

(***************************************************************************)
(* Deleting Director rows: Film.director is on_delete=CASCADE, so the      *)
(* films of a deleted director go with it.  db is the pair of tables.      *)
(***************************************************************************)
\* A faulty variant of DeleteCascade: the director rows go, their films stay.
DeleteOnly(db, ids) ==
    [d |-> Restrict(db.d, DOMAIN db.d \ ids), f |-> db.f]

DeleteCascade(db, ids) ==
    [d |-> Restrict(db.d, DOMAIN db.d \ ids),
     f |-> Restrict(db.f, {k \in DOMAIN db.f : db.f[k].director \notin ids})]

\* Director.delete() on a stored row
DeleteDirector ==
    /\ \E id \in DOMAIN directors :
         LET db == DeleteCascade([d |-> directors, f |-> films], {id})
         IN  /\ directors' = db.d
             /\ films' = db.f
             /\ response' = [op |-> "delete", id |-> id,
                             deleted |-> (Cardinality(DOMAIN directors) - Cardinality(DOMAIN db.d))
                                       + (Cardinality(DOMAIN films) - Cardinality(DOMAIN db.f))]
    /\ UNCHANGED <<data, nextDirectorId, nextFilmId>>

\* Film(...).save(): the director reference is a required foreign key
CreateFilm ==
    /\ nextFilmId <= MaxFilms
    /\ \E director_id \in 0..MaxDirectors :
         IF director_id \in DOMAIN directors
         THEN /\ films' = (nextFilmId :> [director |-> director_id]) @@ films
              /\ nextFilmId' = nextFilmId + 1
              /\ response' = [op |-> "film", director |-> director_id, status |-> "saved",
                              id |-> nextFilmId]
         ELSE /\ UNCHANGED <<films, nextFilmId>>
              /\ response' = [op |-> "film", director |-> director_id,
                              status |-> "IntegrityError"]
    /\ UNCHANGED <<data, directors, nextDirectorId>>

(***************************************************************************)
(* populate: Command.handle.  One pass over the dataset; an exception      *)
(* raised in the body of the loop is printed and the loop goes on.  With   *)
(* --clear the rows matching an entry's name and birthday are deleted;     *)
(* without it the entry is constructed and appended.  After the loop the   *)
(* appended instances are written by one bulk_create, which is outside     *)
(* the try and does not call save().                                       *)
(***************************************************************************)
Matching(dirs, name, date) ==
    {i \in DOMAIN dirs : dirs[i].name = name /\ dirs[i].birthday = date}

\* director["name"], director["birthday"] and the filter's date raise or not
ClearRaises(e) ==
    \/ "name" \notin DOMAIN e
    \/ "birthday" \notin DOMAIN e
    \/ ParseDate(e.birthday) = NoDate

\* Director(**director) raises TypeError on a key that is no field
Constructible(e) == DOMAIN e \subseteq {"name", "birthday"}

RECURSIVE ClearLoop(_, _)
ClearLoop(db, i) ==
    IF i > Len(data) THEN db
    ELSE IF ClearRaises(data[i]) THEN ClearLoop(db, i + 1)
    ELSE ClearLoop(DeleteCascade(db, Matching(db.d, data[i].name, ParseDate(data[i].birthday))),
                   i + 1)

Printed(clear) ==
    Cardinality({i \in DOMAIN data :
                    IF clear THEN ClearRaises(data[i]) ELSE ~Constructible(data[i])})

\* the instances the loop appends: an absent name is the field's default, the empty string
Appended == SelectSeq(data, Constructible)

\* bulk_create raises on an instance whose birthday is absent or no date
Insertable(obj) == "birthday" \in DOMAIN obj /\ ParseDate(obj.birthday) # NoDate

BulkRow(obj) ==
    [name |-> IF "name" \in DOMAIN obj THEN obj.name ELSE <<>>,
     birthday |-> ParseDate(obj.birthday)]

Populate ==
    /\ \E clear \in BOOLEAN :
         IF clear
         THEN LET db == ClearLoop([d |-> directors, f |-> films], 1)
              IN  /\ directors' = db.d
                  /\ films' = db.f
                  /\ nextDirectorId' = nextDirectorId
                  /\ response' = [op |-> "populate", clear |-> TRUE,
                                  printed |-> Printed(TRUE), status |-> "done"]
         ELSE /\ nextDirectorId + Len(Appended) - 1 <= MaxDirectors
              /\ films' = films
              /\ IF \A k \in DOMAIN Appended : Insertable(Appended[k])
                 THEN /\ directors' =
                            [k \in nextDirectorId..(nextDirectorId + Len(Appended) - 1) |->
                                BulkRow(Appended[k - nextDirectorId + 1])] @@ directors
                      /\ nextDirectorId' = nextDirectorId + Len(Appended)
                      /\ response' = [op |-> "populate", clear |-> FALSE,
                                      printed |-> Printed(FALSE), status |-> "done"]
                 ELSE /\ UNCHANGED <<directors, nextDirectorId>>
                      /\ response' = [op |-> "populate", clear |-> FALSE,
                                      printed |-> Printed(FALSE), status |-> "raised"]
    /\ UNCHANGED <<data, nextFilmId>>

Next ==
    \/ Save
    \/ PostDirectors
    \/ GetDirectors
    \/ GetDirectorDetail
    \/ CreateFilm
    \/ DeleteDirector
    \/ Populate

Spec == Init /\ [][Next]_vars

NextSave == SaveOnEmpty

SpecSave == Init /\ [][NextSave]_vars

(***************************************************************************)
(* Properties.                                                             *)
(***************************************************************************)
\* out is orig with every letter that starts a run of letters in upper case and
\* every other letter in lower case, all other characters as they were
TitleCased(orig, out) ==
    /\ Len(out) = Len(orig)
    /\ \A i \in 1..Len(orig) :
         out[i] = IF ~IsCased(orig[i]) THEN orig[i]
                  ELSE IF i > 1 /\ IsCased(orig[i - 1]) THEN Lower(orig[i])
                  ELSE Upper(orig[i])

\* C1: after Director.save() the instance's name is the title-cased input name, the
\* stored row carries that name, and "alFred hitchCoCK" becomes "Alfred Hitchcock".
C1_SaveTitleCases ==
    response.op = "save" =>
        /\ TitleCased(response.input, response.name)
        /\ response.input = TestName => response.name = TestExpected
        /\ response.status = "saved" => directors[response.id].name = response.name

C1_Witness ==
    /\ response.op = "save"
    /\ response.input = TestName
    /\ response.status = "saved"
    /\ directors[response.id].name = TestExpected

\* C2: a POST whose payload is valid persists exactly one new Director row and
\* answers 201 with no body.
C2_PostValidCreated ==
    [][(response'.op = "post" /\ IsValid(response'.payload)) =>
          /\ \A i \in DOMAIN directors : i \in DOMAIN directors' /\ directors'[i] = directors[i]
          /\ Cardinality(DOMAIN directors' \ DOMAIN directors) = 1
          /\ response'.status = HTTP_201_CREATED
          /\ response'.body = {}]_vars

C2_Witness ==
    /\ response.op = "post"
    /\ IsValid(response.payload)
    /\ directors # EmptyTable

\* C3: a POST whose payload misses name or birthday answers 400 with field errors
\* and leaves the Director rows as they were.
C3_PostMissingField400 ==
    [][(response'.op = "post" /\ ~({"name", "birthday"} \subseteq DOMAIN response'.payload)) =>
          /\ response'.status = HTTP_400_BAD_REQUEST
          /\ response'.body # {}
          /\ directors' = directors]_vars

\* C4: GET /api/directors answers 200; without an item (or with an empty one) the
\* body holds every stored row, with item=<name> exactly the rows of that name.
C4_ListFilters ==
    response.op = "list" =>
        LET all == ~response.param.given \/ response.param.value = <<>>
            want == {i \in DOMAIN directors : all \/ directors[i].name = response.param.value}
        IN  /\ response.status = HTTP_200_OK
            /\ DOMAIN response.body = {Serialize(directors[i]) : i \in want}
            /\ \A r \in DOMAIN response.body :
                 response.body[r] = Cardinality({i \in want : Serialize(directors[i]) = r})

C4_Witness ==
    /\ response.op = "list"
    /\ response.param.given
    /\ response.param.value # <<>>
    /\ DOMAIN response.body # {}
    /\ \E i \in DOMAIN directors : directors[i].name # response.param.value

\* C5: GET /api/directors/<id> answers 200 with the name and birthday of the row
\* with that id, 404 when there is none (also after the row was deleted), and
\* changes no row.
C5_DetailAnswers ==
    [][response'.op = "detail" =>
          /\ directors' = directors
          /\ films' = films
          /\ IF response'.id \in DOMAIN directors
             THEN /\ response'.status = HTTP_200_OK
                  /\ response'.body = [name |-> directors[response'.id].name,
                                       birthday |-> FormatDate(directors[response'.id].birthday)]
             ELSE response'.status = HTTP_404_NOT_FOUND]_vars

\* a 404 for an id that was given out earlier: its row was deleted
C5_Witness ==
    /\ response.op = "detail"
    /\ response.status = HTTP_404_NOT_FOUND
    /\ response.id >= 1
    /\ response.id < nextDirectorId

\* every stored Film's director is a stored Director
RefIntegrity == \A k \in DOMAIN films : films[k].director \in DOMAIN directors

\* C6: after every step every stored Film's director is a stored Director, and a
\* step that deletes Directors (Director.delete(), populate --clear) deletes the
\* Films that reference them and no other Film.
C6_FilmsResolve ==
    [][/\ RefIntegrity'
       /\ response'.op \in {"delete", "populate"} =>
             films' = Restrict(films, {k \in DOMAIN films :
                                          films[k].director \in DOMAIN directors'})]_vars

\* a deletion took films with it and left another film in place
C6_Witness ==
    /\ response.op = "delete"
    /\ response.deleted >= 2
    /\ films # EmptyTable

\* an entry and a stored row agree in name and birthday
EntryMatches(e, row) ==
    /\ {"name", "birthday"} \subseteq DOMAIN e
    /\ row.name = e.name
    /\ row.birthday = ParseDate(e.birthday)

InDataset(row) == \E k \in DOMAIN data : EntryMatches(data[k], row)

\* an entry with a name, a birthday that is a date, and nothing else
ValidEntry(e) == DOMAIN e = {"name", "birthday"} /\ ParseDate(e.birthday) # NoDate

PopulateStep(clear) == response'.op = "populate" /\ response'.clear = clear

\* C7: populate without --clear inserts one row per constructible entry and deletes
\* nothing; with --clear it deletes exactly the rows that agree with an entry in
\* name and birthday, inserts nothing and leaves the other rows unchanged.
C7_PopulateFrame ==
    [][/\ PopulateStep(FALSE) =>
             /\ \A i \in DOMAIN directors :
                    i \in DOMAIN directors' /\ directors'[i] = directors[i]
             /\ Cardinality(DOMAIN directors' \ DOMAIN directors)
                    = Cardinality({k \in DOMAIN data : Constructible(data[k])})
       /\ PopulateStep(TRUE) =>
             /\ DOMAIN directors' = {i \in DOMAIN directors : ~InDataset(directors[i])}
             /\ \A i \in DOMAIN directors' : directors'[i] = directors[i]]_vars

\* C8: populate finishes normally whatever the entries are: the valid entries are
\* inserted (without --clear) or their rows deleted (with --clear).
C8_PopulateNeverFails ==
    [][response'.op = "populate" =>
          /\ response'.status = "done"
          /\ \A k \in DOMAIN data : ValidEntry(data[k]) =>
                IF response'.clear
                THEN ~\E i \in DOMAIN directors' : EntryMatches(data[k], directors'[i])
                ELSE \E i \in DOMAIN directors' \ DOMAIN directors :
                        EntryMatches(data[k], directors'[i])]_vars

\* C9: every stored Director's name is in title case.
C9_NamesTitleCased ==
    \A i \in DOMAIN directors : directors[i].name = title(directors[i].name)

\* C10: each populate run adds one more row per valid entry, whatever is stored;
\* after populate --clear no row that populate writes, and no row that agrees with
\* an entry in name and birthday, is left.
C10_PopulateRoundTrip ==
    [][/\ PopulateStep(FALSE) =>
             \A k \in DOMAIN data : ValidEntry(data[k]) =>
                 Cardinality({i \in DOMAIN directors' : EntryMatches(data[k], directors'[i])})
                   = Cardinality({i \in DOMAIN directors : EntryMatches(data[k], directors[i])})
                     + Cardinality({j \in DOMAIN data :
                           ValidEntry(data[j]) /\ BulkRow(data[j]) = BulkRow(data[k])})
       /\ PopulateStep(TRUE) =>
             /\ \A i \in DOMAIN directors' : ~InDataset(directors'[i])
             /\ \A k \in DOMAIN Appended : Insertable(Appended[k]) =>
                    ~\E i \in DOMAIN directors' : directors'[i] = BulkRow(Appended[k])]_vars

====
